---------------------------- MODULE Spec2Model ----------------------------
(***************************************************************************)
(* Heizlast_Alt.py: a Streamlit page with two forms.  The detailed form    *)
(* calls calculate_heating_demand_detailed, the simple form calls          *)
(* calculate_heating_demand.                                               *)
(*                                                                         *)
(* Numbers.  The program computes in floating point; the model computes    *)
(* in fixed point with integers:                                           *)
(*   lengths, heights              m        (integer slider positions)     *)
(*   areas of floor, wall, window  m^2                                     *)
(*   roof area                     1/1000 m^2                              *)
(*   U-values                      1/10  W/(m^2 K)   (slider step 0.1)     *)
(*   infiltration / loss factor    1/100 W/(m^3 K)   (slider step 0.01)    *)
(*   temperature difference        K                                       *)
(*   cosine                        1/1000                                  *)
(*   every heat loss               1/10000000 kW  (UnitsPerKW)             *)
(* A value too large for the fixed-point range is Huge; arithmetic on      *)
(* Huge stays Huge (Times, Plus).                                          *)
(***************************************************************************)
EXTENDS Integers, Sequences, FiniteSets, TLC

VARIABLES
  \* widget values of the detailed form, as the script reads them (87-93, 106-213)
  length_a, length_b, room_height, number_of_floors, area_window,
  roof_pitch, first_achse, u_wand, u_window, u_dach, u_boden,
  infiltration_factor, delta_t,
  \* main(), tab 1: locals of the last script run
  submitted, grundflaeche, wandflaeche, volume,
  frame,      \* locals of calculate_heating_demand_detailed at its return
  result,     \* the tuple it returned, <<>> while it was not called
  warnings,   \* the st.warning recommendations on the page
  \* main(), tab 2
  grundflaeche_simple, raumhoehe, volume_simple,
  heat_loss_factor_simple, delta_t_simple,
  submitted_simple,
  heating_demand_simple   \* <<the value returned>>, <<>> while it was not called

widgets == <<length_a, length_b, room_height, number_of_floors, area_window,
             roof_pitch, first_achse, u_wand, u_window, u_dach, u_boden,
             infiltration_factor, delta_t>>
detailed_run == <<submitted, grundflaeche, wandflaeche, volume, frame, result, warnings>>
simple_widgets == <<grundflaeche_simple, raumhoehe, volume_simple,
                    heat_loss_factor_simple, delta_t_simple>>
simple_run == <<submitted_simple, heating_demand_simple>>
vars == <<widgets, detailed_run, simple_widgets, simple_run>>

----------------------------------------------------------------------------
\* Bounds of the model
MaxLength == 3      \* lengths A and B range over MinLength..MaxLength
MaxFloors == 2      \* floors range over 1..MaxFloors
MaxWindow == 11     \* window area ranges over MinWindow..MaxWindow and the default
MaxVolume == 5      \* volumes handed to calculate_heating_demand: 1..MaxVolume

\* Slider limits of the program
MinLength == 2
MinHeight == 2
MinWindow == 10
DefaultWindow == 25
MinFloors == 2
DefaultFloors == 1
MinUValue == 1
MaxUValue == 50
MaxUWindow == 70
MinInfiltration == 1
MaxInfiltration == 30
MinDeltaT == 5
MaxDeltaT == 30

Unset == <<>>
UnitsPerKW == 10000000
Huge == 2147483647

Max(x, y) == IF x >= y THEN x ELSE y
Min(x, y) == IF x <= y THEN x ELSE y

\* floating-point product, sum and quotient in fixed point
Times(x, y) == IF x = Huge \/ y = Huge THEN Huge ELSE x * y
Plus(x, y) == IF x = Huge \/ y = Huge THEN Huge ELSE x + y
\* x / c for a divisor c in 1/1000; a divisor below the resolution (the float
\* 6.1e-17 that math.cos returns at 90 degrees) gives a quotient beyond range
Quotient(x, c) == IF c = 0 THEN Huge ELSE (x * 1000) \div c

\* math.cos(math.radians(roof_pitch)) in 1/1000
Cos(pitch) ==
  CASE pitch = 0 -> 1000
    [] pitch = 30 -> 866
    [] pitch = 60 -> 500
    [] pitch = 90 -> 0

\* st.slider widens its range to hold the default value: the floors slider
\* (min 2, max 10, value 1) offers 1 .. max
FloorValues == Min(MinFloors, DefaultFloors)..MaxFloors
LengthValues == MinLength..MaxLength
HeightValues == {MinHeight, MinHeight + 1}
WindowValues == (MinWindow..MaxWindow) \cup {DefaultWindow}
PitchValues == {0, 30, 60, 90}
AchseValues == {"A", "B"}
UValues == {MinUValue, MaxUValue}
UWindowValues == {MinUValue, MaxUWindow}
InfiltrationValues == {MinInfiltration, MaxInfiltration}
DeltaTValues == {MinDeltaT, MaxDeltaT}


----------------------------------------------------------------------------
\* "x / 1000." (W to kW) for x in 1/scale W; the result in 1/UnitsPerKW kW.
\* The factor is folded so that no intermediate value leaves the integer range.
PerThousand(x, scale) == IF x = Huge THEN Huge ELSE x * ((UnitsPerKW \div scale) \div 1000)

\* calculate_heating_demand with delta_t left out of the product
calculate_heating_demand_without_delta_t(vol, heat_loss_factor, dt) ==
  PerThousand(vol * heat_loss_factor, 100)

\* calculate_heating_demand (5-17): volume * heat_loss_factor * delta_t / 1000
\* (heat_loss_factor in 1/100 W/(m^3 K))
calculate_heating_demand(vol, heat_loss_factor, dt) ==
  PerThousand(vol * heat_loss_factor * dt, 100)

\* line 42
Grundflaeche(a, b, floors) == a * b * floors

\* the roof area with the "B" branch projecting length_a onto itself
DachFlaecheBranchB_a_twice(a, b, pitch, achse) ==
  IF achse = "A"
    THEN Times(Quotient(b * 1000, Cos(pitch)), a)
    ELSE Times(Quotient(a * 1000, Cos(pitch)), a)

\* lines 45-48, in 1/1000 m^2
DachFlaeche(a, b, pitch, achse) ==
  IF achse = "A"
    THEN Times(Quotient(b * 1000, Cos(pitch)), a)
    ELSE Times(Quotient(a * 1000, Cos(pitch)), b)

\* line 51
WandFlaeche(a, b, height, floors, window) == (a + b) * height * floors - window

\* line 54: u_wand * wandflaeche * delta_t / 1000.   (u in 1/10 W/(m^2 K))
HeatLossWand(u, wand, dt) == PerThousand(u * wand * dt, 10)

\* line 55: u_roof * dach_flaeche * delta_t / 1000.  (dach_flaeche in 1/1000 m^2)
HeatLossRoof(u, dach, dt) == PerThousand(Times(Times(u, dach), dt), 10000)

\* line 56: u_floor * grundflaeche * delta_t / number_of_floors / 1000. / number_of_floors
\* (the two divisions by number_of_floors are taken after the scaling, so that
\* the fixed-point quotient keeps its digits)
HeatLossFloor(u, grund, dt, floors) ==
  (PerThousand(u * grund * dt, 10) \div floors) \div floors

\* line 57: u_window * area_window * delta_t / 1000.
HeatLossWindow(u, window, dt) == PerThousand(u * window * dt, 10)

\* line 58: infiltration_factor * delta_t * grundflaeche / 1000.
HeatLossInfiltration(inf, dt, grund) == PerThousand(inf * dt * grund, 100)

\* the hull loss with the window loss left out of the sum
HeatLossHullWithoutWindow(wand, roof, floor, window) == Plus(Plus(wand, roof), floor)

\* line 60
HeatLossHull(wand, roof, floor, window) == Plus(Plus(Plus(wand, roof), floor), window)

\* line 61
TotalHeatLoss(hull, infiltration) == Plus(hull, infiltration)

\* the locals of calculate_heating_demand_detailed when it returns (41-61)
Locals(a, b, height, floors, pitch, achse, uw, ur, uf, inf, dt, uwin, window) ==
  LET g == Grundflaeche(a, b, floors)
      dach == DachFlaeche(a, b, pitch, achse)
      wand == WandFlaeche(a, b, height, floors, window)
      qw == HeatLossWand(uw, wand, dt)
      qr == HeatLossRoof(ur, dach, dt)
      qf == HeatLossFloor(uf, g, dt, floors)
      qwin == HeatLossWindow(uwin, window, dt)
      qi == HeatLossInfiltration(inf, dt, g)
      hull == HeatLossHull(qw, qr, qf, qwin)
  IN [grundflaeche |-> g, dach_flaeche |-> dach, wandflaeche |-> wand,
      heat_loss_wand |-> qw, heat_loss_roof |-> qr, heat_loss_floor |-> qf,
      heat_loss_window |-> qwin, heat_loss_infiltration |-> qi,
      heat_loss_hull |-> hull,
      total_heat_loss |-> TotalHeatLoss(hull, qi)]

\* line 63-67: the returned tuple
ReturnTuple(f) ==
  <<f.total_heat_loss, f.heat_loss_infiltration, f.heat_loss_hull,
    [Grundflaeche |-> f.grundflaeche, Dachflaeche |-> f.dach_flaeche,
     Wandflaeche |-> f.wandflaeche]>>

calculate_heating_demand_detailed(a, b, height, floors, pitch, achse, uw, ur, uf, inf, dt, uwin, window) ==
  ReturnTuple(Locals(a, b, height, floors, pitch, achse, uw, ur, uf, inf, dt, uwin, window))

\* lines 257-260: the recommendations, from main's unpacked heat_loss_hull and
\* the infiltration slider (1.0 kW; 3.0 W/(m^3 K) = 300 hundredths)
HullWarning(hull) == hull > UnitsPerKW
\* the infiltration guard comparing with the slider's maximum, 0.3, not with 3.0
InfiltrationWarningAtSliderMax(inf) == inf >= MaxInfiltration
InfiltrationWarning(inf) == inf > 300
Recommendations(hull, inf) ==
  (IF HullWarning(hull) THEN {"Hoher Waermeverlust durch Gebaeudehuelle"} ELSE {})
  \cup (IF InfiltrationWarning(inf) THEN {"Hoher Infiltrationsfaktor"} ELSE {})

\* lines 96-97 and 219 of main
MainGrundflaeche(a, b, floors) == a * b * floors
\* the form's wall area with the perimeter 2 * (a + b)
MainWandflaecheAllFourWalls(a, b, height, floors) == 2 * (a + b) * height * floors
MainWandflaeche(a, b, height, floors) == (a + b) * height * floors
MainVolume(grund, height) == grund * height

----------------------------------------------------------------------------
\* The page.  A form sends its widget values to the script only when its submit
\* button is pressed, so one script run is one action whose inputs are the
\* values of the form.  The values a run may carry: each slider at its lowest
\* position or at the model's highest (the window area: lowest or default).
\* The roof pitch, the U-value sliders and the sliders of tab 2 keep to one or
\* two positions; SpecDetailed below varies them.
FormLengths == {MinLength, MaxLength}
FormFloors == {Min(MinFloors, DefaultFloors), MaxFloors}
FormWindows == {MinWindow, DefaultWindow}
FormPitches == {30}
FormUWand == {20}
FormUWindow == {60}
FormUDach == {20}
FormUBoden == {20}
SimpleGrundflaechen == {10, 100}
SimpleHeights == {3}
SimpleFactors == {1, 150}
SimpleDeltaT == {15}

\* the first script run: every widget at its default, no button pressed
Init ==
  /\ length_a = 10 /\ length_b = 5 /\ room_height = 3
  /\ number_of_floors = DefaultFloors
  /\ area_window = DefaultWindow /\ roof_pitch = 30 /\ first_achse = "A"
  /\ u_wand = 20 /\ u_window = 60 /\ u_dach = 20 /\ u_boden = 20
  /\ infiltration_factor = 25 /\ delta_t = 20
  /\ submitted = FALSE
  /\ grundflaeche = MainGrundflaeche(10, 5, DefaultFloors)
  /\ wandflaeche = MainWandflaeche(10, 5, 3, DefaultFloors)
  /\ volume = Unset /\ frame = Unset /\ result = Unset /\ warnings = {}
  /\ grundflaeche_simple = 100 /\ raumhoehe = 3 /\ volume_simple = 300
  /\ heat_loss_factor_simple = 150 /\ delta_t_simple = 15
  /\ submitted_simple = FALSE /\ heating_demand_simple = Unset

\* what a script run leaves of tab 1 when "Heizlast berechnen" of the detailed
\* form was not the button pressed (217): nothing is computed or written
DetailedNotSubmitted ==
  /\ submitted' = FALSE
  /\ volume' = Unset /\ frame' = Unset /\ result' = Unset /\ warnings' = {}
  /\ UNCHANGED <<widgets, grundflaeche, wandflaeche>>

SimpleNotSubmitted ==
  /\ submitted_simple' = FALSE
  /\ heating_demand_simple' = Unset

\* lines 83-260: the detailed form is submitted
SubmitDetailed ==
  \E a \in FormLengths, b \in FormLengths, height \in HeightValues,
     floors \in FormFloors, window \in FormWindows, pitch \in FormPitches,
     achse \in AchseValues, uw \in FormUWand, uwin \in FormUWindow,
     ud \in FormUDach, ub \in FormUBoden, inf \in InfiltrationValues,
     dt \in DeltaTValues :
    /\ length_a' = a /\ length_b' = b /\ room_height' = height
    /\ number_of_floors' = floors /\ area_window' = window
    /\ roof_pitch' = pitch /\ first_achse' = achse
    /\ u_wand' = uw /\ u_window' = uwin /\ u_dach' = ud /\ u_boden' = ub
    /\ infiltration_factor' = inf /\ delta_t' = dt
    /\ grundflaeche' = MainGrundflaeche(a, b, floors)
    /\ wandflaeche' = MainWandflaeche(a, b, height, floors)
    /\ submitted' = TRUE
    /\ volume' = MainVolume(grundflaeche', height)
    /\ frame' = Locals(a, b, height, floors, pitch, achse, uw, ud, ub, inf, dt, uwin, window)
    /\ result' = calculate_heating_demand_detailed(a, b, height, floors, pitch, achse,
                                                   uw, ud, ub, inf, dt, uwin, window)
    /\ warnings' = Recommendations(result'[3], inf)
    /\ SimpleNotSubmitted
    /\ UNCHANGED simple_widgets

\* lines 267-274: the two sliders of tab 2 stand outside the form, moving one
\* reruns the script with no button pressed
RerunSimple ==
  \E g \in SimpleGrundflaechen, h \in SimpleHeights :
    /\ grundflaeche_simple' = g /\ raumhoehe' = h
    /\ volume_simple' = g * h
    /\ UNCHANGED <<heat_loss_factor_simple, delta_t_simple>>
    /\ SimpleNotSubmitted
    /\ DetailedNotSubmitted

\* lines 277-326: the simple form is submitted
SubmitSimple ==
  \E f \in SimpleFactors, dt \in SimpleDeltaT :
    /\ heat_loss_factor_simple' = f /\ delta_t_simple' = dt
    /\ submitted_simple' = TRUE
    /\ heating_demand_simple' = <<calculate_heating_demand(volume_simple, f, dt)>>
    /\ UNCHANGED <<grundflaeche_simple, raumhoehe, volume_simple>>
    /\ DetailedNotSubmitted

Next == SubmitDetailed \/ RerunSimple \/ SubmitSimple

Spec == Init /\ [][Next]_vars

----------------------------------------------------------------------------
\* calculate_heating_demand_detailed as a function: any arguments, one call
InitDetailed ==
  /\ length_a \in LengthValues /\ length_b \in LengthValues
  /\ room_height \in HeightValues /\ number_of_floors \in FloorValues
  /\ area_window \in WindowValues /\ roof_pitch \in PitchValues
  /\ first_achse \in AchseValues
  /\ u_wand \in UValues /\ u_window \in UWindowValues
  /\ u_dach \in UValues /\ u_boden \in UValues
  /\ infiltration_factor \in InfiltrationValues /\ delta_t \in DeltaTValues
  /\ submitted = FALSE
  /\ grundflaeche = Unset /\ wandflaeche = Unset
  /\ volume = Unset /\ frame = Unset /\ result = Unset /\ warnings = {}
  /\ grundflaeche_simple = 100 /\ raumhoehe = 3 /\ volume_simple = 300
  /\ heat_loss_factor_simple = 150 /\ delta_t_simple = 15
  /\ submitted_simple = FALSE /\ heating_demand_simple = Unset

CallDetailed ==
  /\ result = Unset
  /\ frame' = Locals(length_a, length_b, room_height, number_of_floors, roof_pitch,
                     first_achse, u_wand, u_dach, u_boden, infiltration_factor,
                     delta_t, u_window, area_window)
  /\ result' = calculate_heating_demand_detailed(
                     length_a, length_b, room_height, number_of_floors, roof_pitch,
                     first_achse, u_wand, u_dach, u_boden, infiltration_factor,
                     delta_t, u_window, area_window)
  /\ UNCHANGED <<widgets, submitted, grundflaeche, wandflaeche, volume, warnings,
                 simple_widgets, simple_run>>

NextDetailed == CallDetailed

SpecDetailed == InitDetailed /\ [][NextDetailed]_vars

\* calculate_heating_demand as a function: any positive arguments, one call
FactorValues == {1, 11, 150, 191}
SimpleDeltaTValues == {MinDeltaT, 15, MaxDeltaT}

InitSimple ==
  /\ volume_simple \in 1..MaxVolume
  /\ heat_loss_factor_simple \in FactorValues
  /\ delta_t_simple \in SimpleDeltaTValues
  /\ grundflaeche_simple = Unset /\ raumhoehe = Unset
  /\ submitted_simple = FALSE /\ heating_demand_simple = Unset
  /\ length_a = 10 /\ length_b = 5 /\ room_height = 3
  /\ number_of_floors = DefaultFloors
  /\ area_window = DefaultWindow /\ roof_pitch = 30 /\ first_achse = "A"
  /\ u_wand = 20 /\ u_window = 60 /\ u_dach = 20 /\ u_boden = 20
  /\ infiltration_factor = 25 /\ delta_t = 20
  /\ submitted = FALSE
  /\ grundflaeche = Unset /\ wandflaeche = Unset
  /\ volume = Unset /\ frame = Unset /\ result = Unset /\ warnings = {}

CallSimple ==
  /\ heating_demand_simple = Unset
  /\ heating_demand_simple' =
       <<calculate_heating_demand(volume_simple, heat_loss_factor_simple, delta_t_simple)>>
  /\ UNCHANGED <<widgets, detailed_run, simple_widgets, submitted_simple>>

NextSimple == CallSimple

SpecSimple == InitSimple /\ [][NextSimple]_vars

----------------------------------------------------------------------------
\* The claims

called == result # Unset
GrossWall == (length_a + length_b) * room_height * number_of_floors
OtherAchse(achse) == IF achse = "A" THEN "B" ELSE "A"
AbsDiff(x, y) == IF x >= y THEN x - y ELSE y - x

\* C1: the net wall area the detailed calculation reports as Wandflaeche is
\* max(gross wall area - window_area, 0): never negative, and 0 when the window
\* area equals or exceeds the gross wall area.
C1_WandflaecheClampedAtZero ==
  called => result[4].Wandflaeche = Max(GrossWall - area_window, 0)

\* C2: in the detailed form flow the calculation is invoked only in states where
\* window_area <= gross wall area; a larger window area ends in a validation
\* error before the call.
C2_CalledOnlyWithWindowWithinWall ==
  called => area_window <= GrossWall

\* C3: the floor heat loss is u_floor * (length_a * length_b) * delta_t / 1000,
\* the single-floor footprint, whatever the number of floors.
C3_FloorLossOfSingleFootprint ==
  called => frame.heat_loss_floor = PerThousand(u_boden * (length_a * length_b) * delta_t, 10)

\* C4: the infiltration loss returned is infiltration_coefficient * volume *
\* delta_t / 1000 with volume = length_a * length_b * room_height * floors.
C4_InfiltrationLossOfVolume ==
  called => result[2] =
    PerThousand(infiltration_factor
                  * (length_a * length_b * room_height * number_of_floors)
                  * delta_t, 100)

\* C5: for every roof pitch of the form, 90 degrees included, the divisor of the
\* roof projection is max(cos(pitch), eps) for a fixed eps > 0, so the divisor is
\* never below eps and roof_area <= length_a * length_b / eps.  (eps ranges over
\* the cosines the fixed point can tell from 0: 1/1000 .. 1.)
C5_RoofDivisorFlooredByEpsilon ==
  called => \E eps \in 1..1000 :
              /\ Cos(roof_pitch) >= eps
              /\ result[4].Dachflaeche <= Quotient(length_a * length_b * 1000, eps)

\* C6 as stated: switching the ridge axis changes the roof area whenever
\* length_a # length_b, and the two roof areas are equal only when they are equal.
C6_RidgeAxisChangesRoofArea ==
  called =>
    ((length_a # length_b) =>
       (result[4].Dachflaeche
          # DachFlaeche(length_a, length_b, roof_pitch, OtherAchse(first_achse))))

\* C6 as amended: switching the ridge axis leaves the roof area unchanged up to
\* rounding, for every length_a and length_b: both branches compute
\* length_a * length_b / cos(pitch).  The roundings of the two quotients differ
\* by less than one unit each, so the products differ by less than
\* max(length_a, length_b) units of 1/1000 m^2.
C6_RidgeAxisKeepsRoofArea ==
  called =>
    AbsDiff(result[4].Dachflaeche,
            DachFlaeche(length_a, length_b, roof_pitch, OtherAchse(first_achse)))
      < Max(length_a, length_b)

C6_Witness ==
  /\ called /\ length_a # length_b /\ first_achse = "B" /\ roof_pitch = 30
  /\ result[4].Dachflaeche # Huge

\* C7: the returned hull loss is wall + roof + floor + window loss, and the
\* returned total is the returned hull loss plus the returned infiltration loss.
C7_HullAndTotalAreSums ==
  called =>
    /\ result[3] = Plus(Plus(Plus(frame.heat_loss_wand, frame.heat_loss_roof),
                             frame.heat_loss_floor), frame.heat_loss_window)
    /\ result[1] = Plus(result[3], result[2])

C7_Witness ==
  /\ called /\ result[1] # Huge
  /\ frame.heat_loss_window > 0 /\ frame.heat_loss_roof > 0 /\ result[2] > 0
  /\ frame.heat_loss_wand > 0 /\ frame.heat_loss_floor > 0

\* C8: after a submission of the detailed form the reported Grundflaeche is
\* length_a * length_b * floors, the form's gross wall area is
\* (length_a + length_b) * room_height * floors (no factor 2), the form's volume
\* is length_a * length_b * room_height * floors, and the form's gross wall area
\* is the one the calculation subtracts the window area from.
C8_GeometryFollowsReferenceFormulas ==
  submitted =>
    /\ result[4].Grundflaeche = length_a * length_b * number_of_floors
    /\ grundflaeche = length_a * length_b * number_of_floors
    /\ wandflaeche = (length_a + length_b) * room_height * number_of_floors
    /\ volume = length_a * length_b * room_height * number_of_floors
    /\ result[4].Wandflaeche + area_window = wandflaeche

C8_Witness ==
  /\ submitted /\ length_a # length_b /\ number_of_floors > 1
  /\ result[4].Wandflaeche > 0

\* C9: calculate_heating_demand returns volume * heat_loss_factor * delta_t /
\* 1000, and doubling any one argument doubles the result.
C9_SimpleEstimatorLinear ==
  heating_demand_simple # Unset =>
    LET q == heating_demand_simple[1]
        v == volume_simple
        f == heat_loss_factor_simple
        dt == delta_t_simple
    IN /\ q = (v * f * dt) * (UnitsPerKW \div 100000)
       /\ calculate_heating_demand(2 * v, f, dt) = 2 * q
       /\ calculate_heating_demand(v, 2 * f, dt) = 2 * q
       /\ calculate_heating_demand(v, f, 2 * dt) = 2 * q

C9_Witness ==
  /\ heating_demand_simple # Unset
  /\ volume_simple > 1 /\ heat_loss_factor_simple > 1
  /\ heating_demand_simple[1] > 0

\* C10: in the detailed form flow the recommendation "Hoher Infiltrationsfaktor"
\* is never shown, the slider stays at or below 0.3 and so below the guard's 3.0;
\* the only recommendation that appears is the hull-loss warning, shown exactly
\* when the hull loss exceeds 1.0 kW.
C10_InfiltrationWarningNeverShown ==
  /\ "Hoher Infiltrationsfaktor" \notin warnings
  /\ warnings \subseteq {"Hoher Waermeverlust durch Gebaeudehuelle"}
  /\ submitted =>
       /\ infiltration_factor <= MaxInfiltration
       /\ ("Hoher Waermeverlust durch Gebaeudehuelle" \in warnings) <=> (result[3] > UnitsPerKW)

C10_Witness ==
  /\ submitted /\ infiltration_factor = MaxInfiltration
  /\ warnings = {"Hoher Waermeverlust durch Gebaeudehuelle"}
============================================================================
